---- MODULE Spec2Model ----
(***************************************************************************)
(* Model of the face-service orchestration layer (beta/core/core_face.py   *)
(* and beta/api.py): client factory, facade operations and the capability  *)
(* prober, with the backing service as a nondeterministic collaborator.    *)
(***************************************************************************)
EXTENDS Integers, Sequences, FiniteSets, TLC

VARIABLES
    environ,         \* os.environ: FACE_ENDPOINT, FACE_KEY, FACE_APIKEY
    cfg,             \* the configuration mapping handed to the running call
    test_image_url,  \* probe_endpoint's second argument
    pc,              \* position of the running call
    result,          \* probe_endpoint's local `result` dict
    e,               \* the exception bound by the outer `except Exception as e`
    calls,           \* facade calls made by the running caller, in order
    built,           \* the latest create_clients call and its outcome
    ret,             \* what the latest facade operation returned or raised
    api_clients      \* beta/api.py's module-level clients

vars == <<environ, cfg, test_image_url, pc, result, e, calls, built, ret,
          api_clients>>

----------------------------------------------------------------------------
(* Bounds *)

\* number of distinct HTTP status codes the service may answer with
NumStatus == 2
\* largest number of items (faces, groups) in one service response
MaxItems == 1
\* largest number of status polls poller.wait() makes for one training
MaxPolls == 2

----------------------------------------------------------------------------
(* Values *)

None == "None"
\* a key that is not in the mapping at all (cfg.get returns its default)
Absent == "Absent"

PyTrue == "True"
PyFalse == "False"

\* Python truthiness of the values a mapping entry or an argument can hold
Truthy(v) == v # None /\ v # Absent /\ v # "" /\ v # PyFalse

\* Python `a or b`
Or(a, b) == IF Truthy(a) THEN a ELSE b

\* dict.get(key, default): the default only when the key is absent
Get(v, default) == IF v = Absent THEN default ELSE v

NoExc == [type |-> "None", code |-> 0]
Exc(t, c) == [type |-> t, code |-> c]

\* the exceptions a backing-service call can raise: HttpResponseError with
\* a status, or a transport error that is not an HttpResponseError
ServiceExcs ==
    {Exc("HttpResponseError", s) : s \in 1..NumStatus}
        \cup {Exc("ServiceRequestError", 0)}

\* isinstance(exc, cls) for the classes named in the except clauses
IsInstance(exc, cls) ==
    CASE cls = "Exception" ->
            exc.type \in {"ValueError", "AttributeError", "TypeError",
                          "HttpResponseError", "ServiceRequestError"}
      [] cls = "HttpResponseError" -> exc.type = "HttpResponseError"
      [] OTHER -> FALSE

Endpoints == {"e1", "e2"}
Keys == {"k1", "k2"}

Environs ==
    [FACE_ENDPOINT : {None} \cup Endpoints,
     FACE_KEY : {None} \cup Keys,
     FACE_APIKEY : {None} \cup Keys]

\* a configuration mapping; mapping = FALSE stands for an object that is not
\* a mapping at all (cfg.get raises AttributeError)
MappingCfgs ==
    [mapping : {TRUE},
     endpoint : {Absent, ""} \cup Endpoints,
     key : {Absent} \cup Keys,
     auth_method : {Absent, "Subscription Key", "Azure AD"},
     use_managed_identity : {Absent, PyFalse, PyTrue}]

NotAMapping ==
    [mapping |-> FALSE, endpoint |-> Absent, key |-> Absent,
     auth_method |-> Absent, use_managed_identity |-> Absent]

EmptyCfg ==
    [mapping |-> TRUE, endpoint |-> Absent, key |-> Absent,
     auth_method |-> Absent, use_managed_identity |-> Absent]

Configs == MappingCfgs \cup {NotAMapping}

NoCred == [type |-> "None", key |-> None]
NoClient == [kind |-> "None", endpoint |-> None, credential |-> NoCred]

AzureKeyCredential(key) == [type |-> "AzureKeyCredential", key |-> key]
DefaultAzureCredential == [type |-> "DefaultAzureCredential", key |-> None]
FaceClient(endpoint, cred) ==
    [kind |-> "FaceClient", endpoint |-> endpoint, credential |-> cred]
FaceAdministrationClient(endpoint, cred) ==
    [kind |-> "FaceAdministrationClient", endpoint |-> endpoint,
     credential |-> cred]

----------------------------------------------------------------------------
(* Client factory *)

Raised(x) == [exc |-> x, face_client |-> NoClient, admin_client |-> NoClient]
Clients(endpoint, cred) ==
    [exc |-> NoExc,
     face_client |-> FaceClient(endpoint, cred),
     admin_client |-> FaceAdministrationClient(endpoint, cred)]

\* first lookup of create_clients: cfg.get("endpoint") or FACE_ENDPOINT
cfg_endpoint(c, env) == Or(c.endpoint, env.FACE_ENDPOINT)

\* cfg_key with the operands of `or` swapped
cfg_key_env_first(c, env) == Or(env.FACE_KEY, c.key)

\* second lookup of create_clients: cfg.get("key") or FACE_KEY
cfg_key(c, env) == Or(c.key, env.FACE_KEY)

\* the branch test of create_clients
uses_identity(c) ==
    Get(c.auth_method, "Subscription Key") = "Azure AD"
        \/ Truthy(Get(c.use_managed_identity, None))

\* create_clients without the `if not key: raise`
create_clients_unchecked_key(c, env) ==
    IF ~c.mapping THEN Raised(Exc("AttributeError", 0))
    ELSE LET endpoint == cfg_endpoint(c, env) IN
         IF ~Truthy(endpoint) THEN Raised(Exc("ValueError", 1))
         ELSE IF uses_identity(c)
              THEN Clients(endpoint, DefaultAzureCredential)
              ELSE Clients(endpoint, AzureKeyCredential(cfg_key(c, env)))

create_clients(c, env) ==
    IF ~c.mapping THEN Raised(Exc("AttributeError", 0))
    ELSE LET endpoint == cfg_endpoint(c, env) IN
         IF ~Truthy(endpoint) THEN Raised(Exc("ValueError", 1))
         ELSE IF uses_identity(c)
              THEN Clients(endpoint, DefaultAzureCredential)
              ELSE LET key == cfg_key(c, env) IN
                   IF ~Truthy(key) THEN Raised(Exc("ValueError", 2))
                   ELSE Clients(endpoint, AzureKeyCredential(key))

----------------------------------------------------------------------------
(* Backing service *)

\* what str(obj) of a response object can be: the JSON text of an object,
\* the JSON text of a number, or text that is not JSON
StrKinds == {"json object", "json number", "text"}

\* what the service answers to one request: an exception, or n items which
\* do (as_dict) or do not offer a structured export; str is what str() of
\* an item gives (looked at only when there is no export)
Responses ==
    {[exc |-> x, n |-> 0, as_dict |-> TRUE, str |-> "text"] :
        x \in ServiceExcs}
      \cup [exc : {NoExc}, n : 0..MaxItems, as_dict : {TRUE},
            str : {"text"}]
      \cup [exc : {NoExc}, n : 0..MaxItems, as_dict : {FALSE},
            str : StrKinds]

NoneList == [none |-> TRUE, items |-> <<>>]
PyList(s) == [none |-> FALSE, items |-> s]

NoRequest ==
    [api |-> "None", client |-> NoClient, payload |-> None,
     attrs |-> NoneList]
Request(api, client, payload, attrs) ==
    [api |-> api, client |-> client, payload |-> payload, attrs |-> attrs]

\* a value a facade operation returns: its Python type, how it was
\* obtained, and for a list its items
Value(type, from, items) == [type |-> type, from |-> from, items |-> items]
NoValue == Value("None", "None", <<>>)

\* outcome of a facade operation: the exception it raised (NoExc when it
\* returned), the request it issued, the value it returned, and every
\* request it sent to the service, in order
OutcomeSent(x, req, value, sent) ==
    [exc |-> x, request |-> req, value |-> value, sent |-> sent]
Outcome(x, req, value) ==
    OutcomeSent(x, req, value, IF req = NoRequest THEN <<>> ELSE <<req>>)

----------------------------------------------------------------------------
(* Attribute catalog *)

AttributeNames ==
    {"age", "gender", "emotion", "glasses", "hair", "makeup", "facialHair",
     "headPose", "occlusion", "accessories", "blur", "exposure", "noise",
     "qualityForRecognition", "smile"}

ATTRIBUTE_MAP ==
    [a \in AttributeNames |->
        CASE a = "age" -> "AGE"
          [] a = "gender" -> "GENDER"
          [] a = "emotion" -> "EMOTION"
          [] a = "glasses" -> "GLASSES"
          [] a = "hair" -> "HAIR"
          [] a = "makeup" -> "MAKEUP"
          [] a = "facialHair" -> "FACIAL_HAIR"
          [] a = "headPose" -> "HEAD_POSE"
          [] a = "occlusion" -> "OCCLUSION"
          [] a = "accessories" -> "ACCESSORIES"
          [] a = "blur" -> "BLUR"
          [] a = "exposure" -> "EXPOSURE"
          [] a = "noise" -> "NOISE"
          [] a = "qualityForRecognition" -> "QUALITY_FOR_RECOGNITION"
          [] a = "smile" -> "SMILE"]

RECURSIVE Comprehension(_)
RECURSIVE ComprehensionReversed(_)
\* the comprehension building its list from the last name to the first
ComprehensionReversed(names) ==
    IF names = <<>> THEN <<>>
    ELSE IF Head(names) \in DOMAIN ATTRIBUTE_MAP
         THEN ComprehensionReversed(Tail(names)) \o <<ATTRIBUTE_MAP[Head(names)]>>
         ELSE ComprehensionReversed(Tail(names))

\* [ATTRIBUTE_MAP[a] for a in names if a in ATTRIBUTE_MAP]
Comprehension(names) ==
    IF names = <<>> THEN <<>>
    ELSE IF Head(names) \in DOMAIN ATTRIBUTE_MAP
         THEN <<ATTRIBUTE_MAP[Head(names)]>> \o Comprehension(Tail(names))
         ELSE Comprehension(Tail(names))

\* the `attrs` local of detect_faces_sdk
translate(return_face_attributes) ==
    IF return_face_attributes.none \/ return_face_attributes.items = <<>>
    THEN NoneList
    ELSE PyList(Comprehension(return_face_attributes.items))

----------------------------------------------------------------------------
(* Result normalizer *)

\* json.loads(text): the parsed value's type, or ok = FALSE when it raises
json_loads(text) ==
    CASE text = "json object" -> [ok |-> TRUE, type |-> "dict"]
      [] text = "json number" -> [ok |-> TRUE, type |-> "int"]
      [] OTHER -> [ok |-> FALSE, type |-> "None"]

\* _to_simple without its json.loads step
to_simple_without_parse(obj) ==
    IF obj.as_dict THEN Value("dict", "as_dict", <<>>)
    ELSE Value("str", "str", <<>>)

\* _to_simple(obj): obj.as_dict(), else json.loads(str(obj)), else str(obj)
to_simple(obj) ==
    IF obj.as_dict THEN Value("dict", "as_dict", <<>>)
    ELSE IF json_loads(obj.str).ok
    THEN Value(json_loads(obj.str).type, "json.loads", <<>>)
    ELSE Value("str", "str", <<>>)

\* a list of n results, each converted the same way
ListOf(n, item) == Value("list", "list", [i \in 1..n |-> item])

----------------------------------------------------------------------------
(* Facade operations; r is the backing service's answer to the request *)

\* io.BytesIO(img_bytes): None gives an empty stream
BytesIO(img_bytes) == IF img_bytes = None THEN "" ELSE img_bytes

\* detect_faces_sdk sending the request again after a failure
detect_faces_sdk_retrying(c, env, img_bytes, url, return_face_attributes, r) ==
    LET cl == create_clients(c, env)
        attrs == translate(return_face_attributes)
        req == IF Truthy(url)
               THEN Request("detect_from_url", cl.face_client, url, attrs)
               ELSE Request("detect_from_stream", cl.face_client,
                            BytesIO(img_bytes), attrs)
    IN  IF cl.exc # NoExc THEN Outcome(cl.exc, NoRequest, NoValue)
        ELSE IF r.exc # NoExc
             THEN OutcomeSent(r.exc, req, NoValue, <<req, req>>)
        ELSE Outcome(NoExc, req, ListOf(r.n, to_simple(r)))

detect_faces_sdk(c, env, img_bytes, url, return_face_attributes, r) ==
    LET cl == create_clients(c, env)
        attrs == translate(return_face_attributes)
        req == IF Truthy(url)
               THEN Request("detect_from_url", cl.face_client, url, attrs)
               ELSE Request("detect_from_stream", cl.face_client,
                            BytesIO(img_bytes), attrs)
    IN  IF cl.exc # NoExc THEN Outcome(cl.exc, NoRequest, NoValue)
        ELSE IF r.exc # NoExc THEN Outcome(r.exc, req, NoValue)
        ELSE Outcome(NoExc, req,
                     ListOf(r.n, IF r.as_dict
                                 THEN Value("dict", "as_dict", <<>>)
                                 ELSE to_simple(r)))

list_large_person_groups_sdk(c, env, r) ==
    LET cl == create_clients(c, env)
        req == Request("large_person_group.list", cl.admin_client, None,
                       NoneList)
    IN  IF cl.exc # NoExc THEN Outcome(cl.exc, NoRequest, NoValue)
        ELSE IF r.exc # NoExc THEN Outcome(r.exc, req, NoValue)
        ELSE IF r.n > 0 /\ ~r.as_dict
             THEN Outcome(Exc("AttributeError", 0), req, NoValue)
        ELSE Outcome(NoExc, req,
                     ListOf(r.n, Value("dict", "as_dict", <<>>)))

verify_faces_sdk(c, env, face_id1, face_id2, r) ==
    LET cl == create_clients(c, env)
        req == Request("verify_face_to_face", cl.face_client,
                       <<face_id1, face_id2>>, NoneList)
    IN  IF cl.exc # NoExc THEN Outcome(cl.exc, NoRequest, NoValue)
        ELSE IF r.exc # NoExc THEN Outcome(r.exc, req, NoValue)
        ELSE IF ~r.as_dict
             THEN Outcome(Exc("AttributeError", 0), req, NoValue)
        ELSE Outcome(NoExc, req, Value("dict", "as_dict", <<>>))

\* identify_sdk sorting, filtering and cutting the candidates itself
identify_sdk_ranking(c, env, face_ids, large_person_group_id, max_candidates, confidence_threshold, r, candidates) ==
    LET cl == create_clients(c, env)
        req == Request("identify_from_large_person_group", cl.face_client,
                       <<face_ids, large_person_group_id, max_candidates,
                         confidence_threshold>>, NoneList)
        kept == SelectSeq(candidates,
                          LAMBDA x : x >= confidence_threshold)
    IN  IF cl.exc # NoExc THEN Outcome(cl.exc, NoRequest, NoValue)
        ELSE IF r.exc # NoExc THEN Outcome(r.exc, req, NoValue)
        ELSE IF r.n > 0 /\ ~r.as_dict
             THEN Outcome(Exc("AttributeError", 0), req, NoValue)
        ELSE Outcome(NoExc, req,
                     ListOf(r.n, Value("dict", "as_dict", kept)))

\* candidates is the candidate list the service answers for each face
identify_sdk(c, env, face_ids, large_person_group_id, max_candidates, confidence_threshold, r, candidates) ==
    LET cl == create_clients(c, env)
        req == Request("identify_from_large_person_group", cl.face_client,
                       <<face_ids, large_person_group_id, max_candidates,
                         confidence_threshold>>, NoneList)
    IN  IF cl.exc # NoExc THEN Outcome(cl.exc, NoRequest, NoValue)
        ELSE IF r.exc # NoExc THEN Outcome(r.exc, req, NoValue)
        ELSE IF r.n > 0 /\ ~r.as_dict
             THEN Outcome(Exc("AttributeError", 0), req, NoValue)
        ELSE Outcome(NoExc, req,
                     ListOf(r.n, Value("dict", "as_dict", candidates)))

create_large_person_group_sdk(c, env, group_id, name, r) ==
    LET cl == create_clients(c, env)
        req == Request("large_person_group.create", cl.admin_client,
                       <<group_id, name>>, NoneList)
    IN  IF cl.exc # NoExc THEN Outcome(cl.exc, NoRequest, NoValue)
        ELSE IF r.exc # NoExc THEN Outcome(r.exc, req, NoValue)
        ELSE Outcome(NoExc, req, Value("dict", "ok", <<>>))

add_face_from_stream_sdk(c, env, group_id, person_id, img_bytes, r) ==
    LET cl == create_clients(c, env)
        req == Request("large_person_group.add_face_from_stream",
                       cl.admin_client,
                       <<group_id, person_id, BytesIO(img_bytes)>>, NoneList)
    IN  IF cl.exc # NoExc THEN Outcome(cl.exc, NoRequest, NoValue)
        ELSE IF r.exc # NoExc THEN Outcome(r.exc, req, NoValue)
        ELSE Outcome(NoExc, req, to_simple(r))

\* the status requests poller.wait() sends for a training started by req
StatusPolls(req, polls) ==
    [i \in 1..polls |->
        Request("large_person_group.training_status", req.client,
                req.payload, NoneList)]

\* polls is the number of status requests poller.wait() makes; a failure r
\* is that of begin_train when polls = 0 and of the last poll otherwise
train_large_person_group_sdk(c, env, group_id, r, polls) ==
    LET cl == create_clients(c, env)
        req == Request("large_person_group.begin_train", cl.admin_client,
                       <<group_id>>, NoneList)
        sent == <<req>> \o StatusPolls(req, polls)
    IN  IF cl.exc # NoExc THEN Outcome(cl.exc, NoRequest, NoValue)
        ELSE IF r.exc # NoExc THEN OutcomeSent(r.exc, req, NoValue, sent)
        ELSE OutcomeSent(NoExc, req, Value("dict", "status", <<>>), sent)

----------------------------------------------------------------------------
(* beta/api.py: clients built once, when the module is imported *)

\* the module body: KEY and ENDPOINT from the environment, then the two
\* clients; AzureKeyCredential rejects a key that is not a string
api_module(env) ==
    IF env.FACE_APIKEY = None THEN Raised(Exc("TypeError", 0))
    ELSE Clients(env.FACE_ENDPOINT, AzureKeyCredential(env.FACE_APIKEY))

\* the functions of api.py that go through face_client, and those that go
\* through face_admin_client
ApiFaceFunctions ==
    {"detect_faces_from_file", "detect_faces_from_url", "verify_faces",
     "verify_face_in_person_group", "identify_faces"}
ApiAdminFunctions ==
    {"create_large_person_group", "add_person_to_group",
     "add_face_to_person_from_url", "train_person_group",
     "delete_person_group"}

\* one function of api.py: a single request through a module-level client,
\* returned as the SDK gives it; train_person_group waits on the poller
api_function(f, clients, r, polls) ==
    LET req == Request(f,
                       IF f \in ApiFaceFunctions THEN clients.face_client
                       ELSE clients.admin_client,
                       None, NoneList)
        sent == IF f = "train_person_group"
                THEN <<req>> \o StatusPolls(req, polls)
                ELSE <<req>>
    IN  IF r.exc # NoExc THEN OutcomeSent(r.exc, req, NoValue, sent)
        ELSE OutcomeSent(NoExc, req, Value("sdk object", "sdk", <<>>), sent)

----------------------------------------------------------------------------
(* Capability prober: probe_endpoint, one action per facade call it makes *)

NewResult ==
    [detect_basic |-> FALSE, detect_attributes |-> FALSE,
     largePersonGroup |-> FALSE, errors |-> <<>>]

\* result["errors"].append(f"<check> error: {repr(exc)}")
ErrorEntry(check, exc) == [check |-> check, exc |-> exc]
AppendError(res, check, exc) ==
    [res EXCEPT !.errors = Append(@, ErrorEntry(check, exc))]

\* one entry of the log of facade calls
Call(op, img_bytes, url, names, o, r) ==
    [op |-> op, img_bytes |-> img_bytes, url |-> url, names |-> names,
     exc |-> o.exc, request |-> o.request,
     n |-> IF o.request = NoRequest THEN 0 ELSE r.n,
     answered |-> IF o.request = NoRequest THEN NoExc ELSE r.exc]

\* an entry of the log together with the shape of the object the service
\* answered with
FacadeCall(op, img_bytes, url, names, o, r) ==
    [op |-> op, img_bytes |-> img_bytes, url |-> url, names |-> names,
     exc |-> o.exc, request |-> o.request,
     n |-> IF o.request = NoRequest THEN 0 ELSE r.n,
     answered |-> IF o.request = NoRequest THEN NoExc ELSE r.exc,
     obj |-> IF o.request = NoRequest
             THEN [as_dict |-> TRUE, str |-> "text"]
             ELSE [as_dict |-> r.as_dict, str |-> r.str]]

\* the state probe_endpoint is in after a step: its result dict, where it
\* continues, and the exception bound to `e`
Step(res, at, bound) == [result |-> res, pc |-> at, e |-> bound]

\* the first detect of the detect_basic check
first_detect(c, env, url, r) ==
    IF Truthy(url)
    THEN detect_faces_sdk(c, env, None, url, NoneList, r)
    ELSE detect_faces_sdk(c, env, "\\x00", None, NoneList, r)

\* after_first_detect recording the first failure before it tries again
after_first_detect_logs_each(res, url, o) ==
    IF o.exc = NoExc
    THEN Step([res EXCEPT !.detect_basic = TRUE], "detect_attributes", NoExc)
    ELSE IF ~IsInstance(o.exc, "Exception")
    THEN Step(res, "raised", o.exc)
    ELSE IF Truthy(url)
    THEN Step(AppendError(res, "detect_basic", o.exc), "detect_basic_retry",
              o.exc)
    ELSE Step(AppendError(res, "detect_basic", o.exc), "detect_attributes",
              o.exc)

\* try / except Exception / else around the first detect
after_first_detect(res, url, o) ==
    IF o.exc = NoExc
    THEN Step([res EXCEPT !.detect_basic = TRUE], "detect_attributes", NoExc)
    ELSE IF ~IsInstance(o.exc, "Exception")
    THEN Step(res, "raised", o.exc)
    ELSE IF Truthy(url)
    THEN Step(res, "detect_basic_retry", o.exc)
    ELSE Step(AppendError(res, "detect_basic", o.exc), "detect_attributes",
              o.exc)

\* after_retry whose except clause records nothing
after_retry_silent(res, bound, o) ==
    IF o.exc = NoExc
    THEN Step([res EXCEPT !.detect_basic = TRUE], "detect_attributes", bound)
    ELSE IF ~IsInstance(o.exc, "Exception")
    THEN Step(res, "raised", o.exc)
    ELSE Step(res, "detect_attributes", bound)

\* after_retry logging the first attempt's exception instead of e2
after_retry_logs_first(res, bound, o) ==
    IF o.exc = NoExc
    THEN Step([res EXCEPT !.detect_basic = TRUE], "detect_attributes", bound)
    ELSE IF ~IsInstance(o.exc, "Exception")
    THEN Step(res, "raised", o.exc)
    ELSE Step(AppendError(res, "detect_basic", bound), "detect_attributes",
              bound)

\* the inner try / except Exception as e2 around the second detect
after_retry(res, bound, o) ==
    IF o.exc = NoExc
    THEN Step([res EXCEPT !.detect_basic = TRUE], "detect_attributes", bound)
    ELSE IF ~IsInstance(o.exc, "Exception")
    THEN Step(res, "raised", o.exc)
    ELSE Step(AppendError(res, "detect_basic", o.exc), "detect_attributes",
              bound)

\* attributes_without_call lacking the `if result["detect_basic"]` guard
attributes_without_guard(res) ==
    [res EXCEPT !.detect_attributes = TRUE]

\* the attributes test when it makes no call: basic failed, or no test URL
attributes_without_call(res) ==
    IF res.detect_basic
    THEN [res EXCEPT !.detect_attributes = TRUE]
    ELSE res

\* try / except HttpResponseError / except Exception around the attribute
\* detect
after_attributes(res, o) ==
    IF o.exc = NoExc
    THEN [res EXCEPT !.detect_attributes = TRUE]
    ELSE IF IsInstance(o.exc, "HttpResponseError")
    THEN [AppendError(res, "detect_attributes", o.exc)
            EXCEPT !.detect_attributes = FALSE]
    ELSE [AppendError(res, "detect_attributes", o.exc)
            EXCEPT !.detect_attributes = FALSE]

\* after_list whose second except clause records nothing
after_list_silent(res, o) ==
    IF o.exc = NoExc
    THEN [res EXCEPT !.largePersonGroup = TRUE]
    ELSE IF IsInstance(o.exc, "HttpResponseError")
    THEN [AppendError(res, "largePersonGroup", o.exc)
            EXCEPT !.largePersonGroup = FALSE]
    ELSE [res EXCEPT !.largePersonGroup = FALSE]

\* after_list setting the flag before the call instead of after it
after_list_flag_kept(res, o) ==
    IF o.exc = NoExc
    THEN [res EXCEPT !.largePersonGroup = TRUE]
    ELSE [AppendError(res, "largePersonGroup", o.exc)
            EXCEPT !.largePersonGroup = TRUE]

\* try / except HttpResponseError / except Exception around the listing
after_list(res, o) ==
    IF o.exc = NoExc
    THEN [res EXCEPT !.largePersonGroup = TRUE]
    ELSE IF IsInstance(o.exc, "HttpResponseError")
    THEN [AppendError(res, "largePersonGroup", o.exc)
            EXCEPT !.largePersonGroup = FALSE]
    ELSE [AppendError(res, "largePersonGroup", o.exc)
            EXCEPT !.largePersonGroup = FALSE]

\* caught_by_handlers without the trailing `except Exception` clause
caught_by_http_handler(exc) ==
    IsInstance(exc, "HttpResponseError")

\* whether an exception raised inside one of the two later try blocks is
\* caught by one of its except clauses
caught_by_handlers(exc) ==
    IsInstance(exc, "HttpResponseError") \/ IsInstance(exc, "Exception")

ProbeIdle == pc = "idle"

probe_endpoint(c, u) ==
    /\ ProbeIdle
    /\ cfg' = c
    /\ test_image_url' = u
    /\ result' = NewResult
    /\ e' = NoExc
    /\ calls' = <<>>
    /\ pc' = "detect_basic"
    /\ UNCHANGED <<environ, built, ret, api_clients>>

DetectBasic ==
    /\ pc = "detect_basic"
    /\ \E r \in Responses :
          LET o == first_detect(cfg, environ, test_image_url, r)
              s == after_first_detect(result, test_image_url, o)
          IN  /\ calls' = Append(calls,
                    Call("detect_faces_sdk",
                         IF Truthy(test_image_url) THEN None ELSE "\\x00",
                         IF Truthy(test_image_url) THEN test_image_url
                         ELSE None,
                         NoneList, o, r))
              /\ result' = s.result
              /\ pc' = s.pc
              /\ e' = s.e
    /\ UNCHANGED <<environ, cfg, test_image_url, built, ret, api_clients>>

DetectBasicRetry ==
    /\ pc = "detect_basic_retry"
    /\ \E r \in Responses :
          LET o == detect_faces_sdk(cfg, environ, None, test_image_url,
                                    NoneList, r)
              s == after_retry(result, e, o)
          IN  /\ calls' = Append(calls,
                    Call("detect_faces_sdk", None, test_image_url, NoneList,
                         o, r))
              /\ result' = s.result
              /\ pc' = s.pc
              /\ e' = s.e
    /\ UNCHANGED <<environ, cfg, test_image_url, built, ret, api_clients>>

DetectAttributes ==
    /\ pc = "detect_attributes"
    /\ IF result.detect_basic /\ Truthy(test_image_url)
       THEN \E r \in Responses :
              LET names == PyList(<<"age", "gender">>)
                  o == detect_faces_sdk(cfg, environ, None, test_image_url,
                                        names, r)
              IN  /\ calls' = Append(calls,
                        Call("detect_faces_sdk", None, test_image_url,
                             names, o, r))
                  /\ IF o.exc = NoExc \/ caught_by_handlers(o.exc)
                     THEN /\ result' = after_attributes(result, o)
                          /\ pc' = "largePersonGroup"
                          /\ e' = e
                     ELSE /\ result' = result
                          /\ pc' = "raised"
                          /\ e' = o.exc
       ELSE /\ result' = attributes_without_call(result)
            /\ pc' = "largePersonGroup"
            /\ UNCHANGED <<calls, e>>
    /\ UNCHANGED <<environ, cfg, test_image_url, built, ret, api_clients>>

LargePersonGroup ==
    /\ pc = "largePersonGroup"
    /\ \E r \in Responses :
          LET o == list_large_person_groups_sdk(cfg, environ, r)
          IN  /\ calls' = Append(calls,
                    Call("list_large_person_groups_sdk", None, None,
                         NoneList, o, r))
              /\ IF o.exc = NoExc \/ caught_by_handlers(o.exc)
                 THEN /\ result' = after_list(result, o)
                      /\ pc' = "done"
                      /\ e' = e
                 ELSE /\ result' = result
                      /\ pc' = "raised"
                      /\ e' = o.exc
    /\ UNCHANGED <<environ, cfg, test_image_url, built, ret, api_clients>>

\* `return result`: the report goes to the caller, the locals are dropped
ProbeReturn ==
    /\ pc = "done"
    /\ pc' = "idle"
    /\ cfg' = EmptyCfg
    /\ test_image_url' = None
    /\ result' = NewResult
    /\ e' = NoExc
    /\ calls' = <<>>
    /\ UNCHANGED <<environ, built, ret, api_clients>>

\* the process environment changes between two calls of the layer
SetEnviron(env) ==
    /\ ProbeIdle
    /\ environ' = env
    /\ UNCHANGED <<cfg, test_image_url, pc, result, e, calls, built, ret,
                   api_clients>>

NoOutcome == Outcome(NoExc, NoRequest, NoValue)
NoClients == Raised(NoExc)
NoEnviron ==
    [FACE_ENDPOINT |-> None, FACE_KEY |-> None, FACE_APIKEY |-> None]
NoBuild ==
    [done |-> FALSE, cfg |-> EmptyCfg, environ |-> NoEnviron,
     out |-> NoClients]

TestUrls == {None, "http://test/img.jpg"}
\* the configurations probed: every way create_clients can end
ProbeConfigs ==
    {c \in Configs : /\ c.use_managed_identity = Absent
                     /\ c.key # "k2"
                     /\ c.endpoint # "e2"}
ProbeEnvirons == {env \in Environs : env.FACE_APIKEY = None}

Init ==
    /\ environ \in ProbeEnvirons
    /\ cfg = EmptyCfg
    /\ test_image_url = None
    /\ pc = "idle"
    /\ result = NewResult
    /\ e = NoExc
    /\ calls = <<>>
    /\ built = NoBuild
    /\ ret = NoOutcome
    /\ api_clients = NoClients

Next ==
    \/ \E c \in ProbeConfigs, u \in TestUrls : probe_endpoint(c, u)
    \/ DetectBasic
    \/ DetectBasicRetry
    \/ DetectAttributes
    \/ LargePersonGroup
    \/ ProbeReturn
    \/ \E env \in ProbeEnvirons : SetEnviron(env)

Spec == Init /\ [][Next]_vars

----------------------------------------------------------------------------
(* Properties of probe_endpoint *)

Range(seq) == {seq[i] : i \in DOMAIN seq}

ReportKeys == {"detect_basic", "detect_attributes", "largePersonGroup",
               "errors"}

Failed(call) == call.exc # NoExc

\* the entries of the report's errors that a given check appended
EntriesOf(check) == SelectSeq(result.errors, LAMBDA x : x.check = check)

\* positions in the call log of the detect calls that request no attributes
\* and of those that do, and of the listings
IsBasicCall(call) == call.op = "detect_faces_sdk" /\ call.names.none
IsAttributeCall(call) == call.op = "detect_faces_sdk" /\ ~call.names.none
IsListCall(call) == call.op = "list_large_person_groups_sdk"
BasicCalls == SelectSeq(calls, IsBasicCall)
AttributeCalls == SelectSeq(calls, IsAttributeCall)
ListCalls == SelectSeq(calls, IsListCall)

\* C1: probe_endpoint never lets an exception reach its caller, and the
\* report it returns holds the three booleans and the errors sequence,
\* whatever the configuration and whatever fails.
C1_ProbeTotal ==
    /\ pc # "raised"
    /\ pc = "done" =>
          /\ DOMAIN result = ReportKeys
          /\ result.detect_basic \in BOOLEAN
          /\ result.detect_attributes \in BOOLEAN
          /\ result.largePersonGroup \in BOOLEAN
          /\ result.errors \in Seq(Range(result.errors))

\* a probe of something that is not a mapping returns, every call having
\* failed at client construction
C1_Witness ==
    /\ pc = "done"
    /\ ~cfg.mapping
    /\ \A i \in DOMAIN calls : calls[i].exc.type = "AttributeError"
    /\ ~result.detect_basic /\ ~result.largePersonGroup
    /\ Len(result.errors) = 2

\* a probe with an empty configuration returns as well
C1_WitnessEmpty ==
    /\ pc = "done"
    /\ cfg = EmptyCfg
    /\ environ.FACE_ENDPOINT = None

\* C2 as stated: whenever a call made during the probe failed, the returned
\* report's errors is non-empty.
C2_AnyFailureLogged ==
    pc = "done" /\ (\E i \in DOMAIN calls : Failed(calls[i]))
        => result.errors # <<>>

\* a first detect attempt that failed and whose retry succeeded
SwallowedFirstAttempt(i) ==
    /\ i = 1
    /\ Len(calls) >= 2
    /\ Failed(calls[1])
    /\ IsBasicCall(calls[2])
    /\ ~Failed(calls[2])

\* C2 amended: whenever a call made during the probe failed, other than a
\* first detect attempt whose retry then succeeded, the returned report's
\* errors is non-empty.
C2_FailureLogged ==
    pc = "done"
      /\ (\E i \in DOMAIN calls :
             Failed(calls[i]) /\ ~SwallowedFirstAttempt(i))
        => result.errors # <<>>

\* the retry succeeded after a failed first attempt and the listing then
\* failed with a transport error: one entry
C2_Witness ==
    /\ pc = "done"
    /\ SwallowedFirstAttempt(1)
    /\ Failed(calls[Len(calls)])
    /\ calls[Len(calls)].exc.type = "ServiceRequestError"
    /\ Len(result.errors) = 1

\* C3: a probe without a test URL makes no attribute-requesting detect call
\* and reports detect_attributes = False whatever detect_basic came to.
C3_NoUrlAttributesFalse ==
    pc = "done" /\ ~Truthy(test_image_url)
        => /\ AttributeCalls = <<>>
           /\ result.detect_attributes = FALSE

\* C4: the detect_basic check makes one attempt, with the URL if there is
\* one and the one-byte payload otherwise, and one more with the URL iff the
\* first failed and a URL exists; detect_basic is True iff an attempt
\* succeeded; when it is False every attempt failed and errors holds exactly
\* one detect_basic entry, that of the last attempt.
C4_BasicFallback ==
    pc \in {"detect_attributes", "largePersonGroup", "done"} =>
      LET b == BasicCalls
          hasUrl == Truthy(test_image_url)
      IN  /\ Len(b) \in {1, 2}
          /\ IF hasUrl
             THEN b[1].url = test_image_url /\ b[1].img_bytes = None
             ELSE b[1].url = None /\ b[1].img_bytes = "\\x00"
          /\ Len(b) = 2 <=> (Failed(b[1]) /\ hasUrl)
          /\ Len(b) = 2 =>
                b[2].url = test_image_url /\ b[2].img_bytes = None
          /\ result.detect_basic <=> (\E i \in DOMAIN b : ~Failed(b[i]))
          /\ ~result.detect_basic =>
                /\ \A i \in DOMAIN b : Failed(b[i])
                /\ Len(b) = IF hasUrl THEN 2 ELSE 1
                /\ EntriesOf("detect_basic")
                      = <<ErrorEntry("detect_basic", b[Len(b)].exc)>>

\* both attempts with the URL failed, with different errors
C4_Witness ==
    /\ pc = "done"
    /\ Truthy(test_image_url)
    /\ Len(BasicCalls) = 2
    /\ BasicCalls[1].exc.type = "ServiceRequestError"
    /\ BasicCalls[2].exc.type = "HttpResponseError"
    /\ ~result.detect_basic

\* C5: an attribute-requesting detect is issued only once detect_basic is
\* True; no returned report has detect_attributes without detect_basic; a
\* failed attribute call, whatever it raised, gives detect_attributes =
\* False and exactly one detect_attributes entry.
C5_AttributesAfterBasic ==
    /\ \A i \in DOMAIN calls :
          IsAttributeCall(calls[i]) =>
              /\ result.detect_basic
              /\ \E j \in 1..(i - 1) :
                    IsBasicCall(calls[j]) /\ ~Failed(calls[j])
    /\ pc = "done" => ~(result.detect_attributes /\ ~result.detect_basic)
    /\ pc \in {"largePersonGroup", "done"} =>
          /\ Len(AttributeCalls) <= 1
          /\ \A i \in DOMAIN AttributeCalls :
                Failed(AttributeCalls[i]) =>
                    /\ ~result.detect_attributes
                    /\ EntriesOf("detect_attributes")
                          = <<ErrorEntry("detect_attributes",
                                         AttributeCalls[i].exc)>>

\* the attribute call failed with something other than an HttpResponseError
C5_Witness ==
    /\ pc = "done"
    /\ Len(AttributeCalls) = 1
    /\ AttributeCalls[1].exc.type = "ServiceRequestError"
    /\ result.detect_basic
    /\ ~result.detect_attributes

\* a probe whose detect_basic check failed goes on without attribute call
C5_WitnessSkipped ==
    /\ pc = "done"
    /\ Truthy(test_image_url)
    /\ ~result.detect_basic
    /\ AttributeCalls = <<>>

\* C6: every finished probe has made exactly one list_large_person_groups
\* call, whatever the other two checks came to; largePersonGroup is True
\* iff that call succeeded, an empty listing included; a failed listing
\* gives False and exactly one largePersonGroup entry.
C6_ListIndependent ==
    pc = "done" =>
      /\ Len(ListCalls) = 1
      /\ result.largePersonGroup <=> ~Failed(ListCalls[1])
      /\ (ListCalls[1].request # NoRequest /\ ListCalls[1].n = 0
            /\ ListCalls[1].exc.type \notin {"HttpResponseError",
                                             "ServiceRequestError"})
            => result.largePersonGroup
      /\ IF Failed(ListCalls[1])
         THEN EntriesOf("largePersonGroup")
                 = <<ErrorEntry("largePersonGroup", ListCalls[1].exc)>>
         ELSE EntriesOf("largePersonGroup") = <<>>

\* both detect checks failed and the listing, empty, still succeeded
C6_Witness ==
    /\ pc = "done"
    /\ ~result.detect_basic
    /\ ~result.detect_attributes
    /\ ListCalls[1].request # NoRequest
    /\ ListCalls[1].n = 0
    /\ result.largePersonGroup

\* the listing failed on items without a structured export
C6_WitnessFailed ==
    /\ pc = "done"
    /\ result.detect_basic
    /\ ListCalls[1].exc.type = "AttributeError"
    /\ ListCalls[1].request # NoRequest
    /\ ~result.largePersonGroup

----------------------------------------------------------------------------
(* Client factory on its own: create_clients called with any configuration *)
(* under any process environment                                           *)

\* one call create_clients(c) by some caller
Build(c) ==
    /\ pc = "idle"
    /\ built' = [done |-> TRUE, cfg |-> c, environ |-> environ,
                 out |-> create_clients(c, environ)]
    /\ UNCHANGED <<environ, cfg, test_image_url, pc, result, e, calls, ret,
                   api_clients>>

FactoryEnvirons == {env \in Environs : env.FACE_APIKEY # "k2"}

InitFactory ==
    /\ environ \in FactoryEnvirons
    /\ cfg = EmptyCfg
    /\ test_image_url = None
    /\ pc = "idle"
    /\ result = NewResult
    /\ e = NoExc
    /\ calls = <<>>
    /\ built = NoBuild
    /\ ret = NoOutcome
    /\ api_clients = NoClients

NextFactory ==
    \/ \E c \in Configs : Build(c)
    \/ \E env \in FactoryEnvirons : SetEnviron(env)

SpecFactory == InitFactory /\ [][NextFactory]_vars

\* a build that raised the configuration error and constructed no client
ConfigurationError(out) ==
    /\ out.exc.type = "ValueError"
    /\ out.face_client = NoClient
    /\ out.admin_client = NoClient

\* a build that returned both clients, bound to the endpoint and credential
Succeeded(out, endpoint, cred) ==
    /\ out.exc = NoExc
    /\ out.face_client = FaceClient(endpoint, cred)
    /\ out.admin_client = FaceAdministrationClient(endpoint, cred)

\* the configuration asks for API-key authentication
ApiKeyMode(c) ==
    /\ c.auth_method \in {Absent, "Subscription Key"}
    /\ c.use_managed_identity \in {Absent, PyFalse}

\* the mapping carries no usable value under the key
Missing(v) == v \in {Absent, None, ""}

C8_WitnessSuccess ==
    /\ built.done
    /\ built.cfg.endpoint = "e1"
    /\ built.cfg.key = "k1"
    /\ ApiKeyMode(built.cfg)
    /\ built.environ.FACE_KEY = "k2"
    /\ Succeeded(built.out, "e1", AzureKeyCredential("k1"))

\* a step that is a build following an earlier build of an equal
\* configuration
Rebuild == built.done /\ built'.done /\ built' # built
              /\ built'.cfg = built.cfg

EndpointFromEnviron(c) == c.mapping /\ Missing(c.endpoint)
KeyFromEnviron(c) == c.mapping /\ ApiKeyMode(c) /\ Missing(c.key)

----------------------------------------------------------------------------
(* The facade called directly, as the dashboard does: one action per       *)
(* operation, each with the configuration of that call                     *)

FacadeConfigs ==
    {c \in Configs : /\ c.use_managed_identity = Absent
                     /\ c.endpoint # ""
                     /\ c.auth_method # "Subscription Key"
                     /\ c.auth_method = "Azure AD" => c.key = Absent}
FacadeEnvirons ==
    {env \in Environs : env.FACE_KEY = None}

Images == {None, "jpeg"}
NameLists == {NoneList, PyList(<<"age", "bogus", "gender">>)}

\* the caller takes the outcome of the call it made
Returns(c, entry, o) ==
    /\ pc = "idle"
    /\ cfg' = c
    /\ calls' = <<entry>>
    /\ ret' = o
    /\ pc' = "returned"
    /\ UNCHANGED <<environ, test_image_url, result, e, built, api_clients>>

\* the caller is done with the outcome and ready for its next call
Resume ==
    /\ pc = "returned"
    /\ pc' = "idle"
    /\ cfg' = EmptyCfg
    /\ calls' = <<>>
    /\ ret' = NoOutcome
    /\ UNCHANGED <<environ, test_image_url, result, e, built, api_clients>>

Detect(c) ==
    \E img \in Images, url \in TestUrls, names \in NameLists,
       r \in Responses :
        LET o == detect_faces_sdk(c, environ, img, url, names, r)
        IN  Returns(c, FacadeCall("detect_faces_sdk", img, url, names, o, r), o)

Verify(c) ==
    \E r \in Responses :
        LET o == verify_faces_sdk(c, environ, "f1", "f2", r)
        IN  Returns(c, FacadeCall("verify_faces_sdk", None, None, NoneList, o, r),
                    o)

\* identify_sdk's defaults: max_candidates=5, confidence_threshold=0.5
\* (confidences are counted in tenths)
DefaultMaxCandidates == 5
DefaultConfidenceThreshold == 5

Identify(c) ==
    \E r \in Responses :
        LET o == identify_sdk(c, environ, <<"f1">>, "g1",
                              DefaultMaxCandidates,
                              DefaultConfidenceThreshold, r, <<9, 6>>)
        IN  Returns(c, FacadeCall("identify_sdk", None, None, NoneList, o, r), o)

CreateGroup(c) ==
    \E r \in Responses :
        LET o == create_large_person_group_sdk(c, environ, "g1", "group",
                                               r)
        IN  Returns(c, FacadeCall("create_large_person_group_sdk", None, None,
                            NoneList, o, r), o)

ListGroups(c) ==
    \E r \in Responses :
        LET o == list_large_person_groups_sdk(c, environ, r)
        IN  Returns(c, FacadeCall("list_large_person_groups_sdk", None, None,
                            NoneList, o, r), o)

AddFace(c) ==
    \E r \in Responses :
        LET o == add_face_from_stream_sdk(c, environ, "g1", "p1", "jpeg",
                                          r)
        IN  Returns(c, FacadeCall("add_face_from_stream_sdk", "jpeg", None,
                            NoneList, o, r), o)

Train(c) ==
    \E r \in Responses, polls \in 0..MaxPolls :
        LET o == train_large_person_group_sdk(c, environ, "g1", r, polls)
        IN  Returns(c, FacadeCall("train_large_person_group_sdk", None, None,
                            NoneList, o, r), o)

\* `import api`: the module body runs until it has once run to its end
ApiImport ==
    /\ pc = "idle"
    /\ api_clients.face_client = NoClient
    /\ api_clients' = api_module(environ)
    /\ UNCHANGED <<environ, cfg, test_image_url, pc, result, e, calls,
                   built, ret>>

\* a call of one of api.py's functions; it takes no configuration
ApiCall(f) ==
    /\ api_clients.face_client # NoClient
    /\ \E r \in Responses,
          polls \in IF f = "train_person_group" THEN 0..MaxPolls ELSE {0} :
          LET o == api_function(f, api_clients, r, polls)
          IN  Returns(cfg, FacadeCall(f, None, None, NoneList, o, r), o)

InitFacade ==
    /\ environ \in FacadeEnvirons
    /\ cfg = EmptyCfg
    /\ test_image_url = None
    /\ pc = "idle"
    /\ result = NewResult
    /\ e = NoExc
    /\ calls = <<>>
    /\ built = NoBuild
    /\ ret = NoOutcome
    /\ api_clients = NoClients

NextFacade ==
    \/ \E c \in FacadeConfigs :
          \/ Detect(c)
          \/ Verify(c)
          \/ Identify(c)
          \/ CreateGroup(c)
          \/ ListGroups(c)
          \/ AddFace(c)
          \/ Train(c)
    \/ Resume
    \/ ApiImport
    \/ \E f \in ApiFaceFunctions \cup ApiAdminFunctions : ApiCall(f)
    \/ \E env \in FacadeEnvirons : SetEnviron(env)

SpecFacade == InitFacade /\ [][NextFacade]_vars

\* the latest call, if there was one
Called(op) == calls # <<>> /\ calls[1].op = op

\* C7: a detect call given both image bytes and a URL, or neither, fails
\* (with an invalid-argument error) and sends no request to the service.
C7_DetectExactlyOneInput ==
    (/\ Called("detect_faces_sdk")
     /\ (calls[1].img_bytes # None) = (calls[1].url # None))
        => /\ ret.exc # NoExc
           /\ ret.request = NoRequest

\* the latest call went through core_face, or through api.py
CoreCall == calls # <<>> /\ calls[1].op \notin ApiFaceFunctions
                         /\ calls[1].op \notin ApiAdminFunctions
ModuleCall == calls # <<>> /\ ~CoreCall

\* the endpoint and credential the configuration in force at the latest
\* call stands for: the mapping passed to a core_face operation (with the
\* environment behind it), the environment for api.py
CurrentEndpoint ==
    IF CoreCall THEN Or(cfg.endpoint, environ.FACE_ENDPOINT)
    ELSE environ.FACE_ENDPOINT
CurrentCredential ==
    IF ModuleCall THEN AzureKeyCredential(environ.FACE_APIKEY)
    ELSE IF ApiKeyMode(cfg)
    THEN AzureKeyCredential(Or(cfg.key, environ.FACE_KEY))
    ELSE DefaultAzureCredential

\* the request of the latest call carries the current endpoint and
\* credential
UsesCurrentConfiguration ==
    ret.request # NoRequest =>
        /\ ret.request.client.endpoint = CurrentEndpoint
        /\ ret.request.client.credential = CurrentCredential

\* C10: every facade call builds its clients from the configuration in
\* force at that call: its request goes to that configuration's endpoint
\* with that configuration's credential, never to those of an earlier one.
C10_NoClientCaching ==
    [][calls' # calls => UsesCurrentConfiguration']_vars

\* the operations of core_face alone do rebuild their clients on every call
C10_CoreFaceRebuilds ==
    [][(calls' # calls /\ CoreCall') => UsesCurrentConfiguration']_vars

----------------------------------------------------------------------------
(* Requests and errors of the facade operations *)

IsStatusPoll(req) == req.api = "large_person_group.training_status"
OperationRequests == SelectSeq(ret.sent, LAMBDA q : ~IsStatusPoll(q))

\* C11 as stated: every facade call sends at most one request to the
\* service, and when the service fails it the caller gets that same error.
C11_AtMostOneRequest ==
    (pc = "returned" /\ CoreCall) =>
        /\ Len(ret.sent) <= 1
        /\ calls[1].answered # NoExc => ret.exc = calls[1].answered

\* C11 amended: every facade call sends at most one operation request and
\* never repeats it; only train sends more, the status polls of
\* poller.wait() after its begin_train; when the service fails the call the
\* caller gets that same error.
C11_NoRetrySameError ==
    (pc = "returned" /\ CoreCall) =>
        /\ Len(OperationRequests) <= 1
        /\ ret.sent # <<>> => ret.sent[1] = ret.request
        /\ ~Called("train_large_person_group_sdk")
              => Len(ret.sent) <= 1
        /\ Called("train_large_person_group_sdk")
              => \A i \in 2..Len(ret.sent) : IsStatusPoll(ret.sent[i])
        /\ calls[1].answered # NoExc => ret.exc = calls[1].answered

\* a detect that the service refused: one request, the service's error
C11_Witness ==
    /\ pc = "returned"
    /\ Called("detect_faces_sdk")
    /\ calls[1].answered = Exc("HttpResponseError", 1)
    /\ ret.exc = Exc("HttpResponseError", 1)
    /\ Len(ret.sent) = 1

\* a training that failed at its second status poll
C11_WitnessTrain ==
    /\ pc = "returned"
    /\ Called("train_large_person_group_sdk")
    /\ Len(ret.sent) = 3
    /\ ret.exc.type = "HttpResponseError"

----------------------------------------------------------------------------
(* Result normalizer, as add_face_from_stream_sdk applies it *)

\* the service answered the latest call with an object, not an error
Answered == pc = "returned" /\ ret.request # NoRequest
               /\ calls[1].answered = NoExc

IsJsonText(text) == text \in {"json object", "json number"}

C12_WitnessParsed ==
    /\ Answered
    /\ Called("add_face_from_stream_sdk")
    /\ ~calls[1].obj.as_dict
    /\ calls[1].obj.str = "json object"
    /\ ret.value = Value("dict", "json.loads", <<>>)

----------------------------------------------------------------------------
(* Normalization of every operation's response *)

NormalizingOperations ==
    {"detect_faces_sdk", "verify_faces_sdk", "identify_sdk",
     "list_large_person_groups_sdk", "add_face_from_stream_sdk"}

\* C13: whatever object the service answers with, also one without a
\* structured export, detect, verify, identify, list groups and add face
\* return a normalized result and do not raise.
C13_ShapeNeverRaises ==
    (Answered /\ CoreCall /\ calls[1].op \in NormalizingOperations) =>
        /\ ret.exc = NoExc
        /\ ret.value # NoValue

----------------------------------------------------------------------------
(* Attribute catalog: detect_faces_sdk over every short list of names *)

\* longest list of attribute names a caller passes
MaxNames == 3

\* names a caller may pass: three of the catalog and one unknown
SampleNames == {"age", "gender", "smile", "bogus"}

SeqsUpTo(S, n) == UNION {[1..k -> S] : k \in 0..n}

NameSeqs == {NoneList} \cup {PyList(s) : s \in SeqsUpTo(SampleNames, MaxNames)}

CatalogConfigs ==
    {c \in FacadeConfigs : /\ c.auth_method = Absent
                           /\ create_clients(c, NoEnviron).exc = NoExc}

\* answers whose objects have the structured export
ExportedResponses == {r \in Responses : r.as_dict}

DetectWithNames(c) ==
    \E img \in Images, url \in TestUrls, names \in NameSeqs,
       r \in ExportedResponses :
        LET o == detect_faces_sdk(c, environ, img, url, names, r)
        IN  Returns(c, FacadeCall("detect_faces_sdk", img, url, names, o, r), o)

InitCatalog ==
    /\ environ = NoEnviron
    /\ cfg = EmptyCfg
    /\ test_image_url = None
    /\ pc = "idle"
    /\ result = NewResult
    /\ e = NoExc
    /\ calls = <<>>
    /\ built = NoBuild
    /\ ret = NoOutcome
    /\ api_clients = NoClients

NextCatalog ==
    \/ \E c \in CatalogConfigs : DetectWithNames(c)
    \/ Resume

SpecCatalog == InitCatalog /\ [][NextCatalog]_vars

\* positions of the names of the list that belong to the catalog
Known(names) == {i \in 1..Len(names) : names[i] \in AttributeNames}

\* C14: the identifiers detect sends are exactly the catalog's images of
\* the names that belong to the 15-name catalog, in the caller's order;
\* unknown names are dropped and the call does not raise for them; with an
\* empty or absent list of names no identifier is sent.
C14_TranslateFiltersInOrder ==
    /\ Cardinality(AttributeNames) = 15
    /\ (pc = "returned" /\ Called("detect_faces_sdk")) =>
          LET names == calls[1].names.items
              sent  == ret.request.attrs.items
              known == Known(names)
          IN  /\ ret.request # NoRequest
              /\ ret.exc = calls[1].answered
              /\ Len(sent) = Cardinality(known)
              /\ \A i \in known :
                    sent[Cardinality({j \in known : j <= i})]
                        = ATTRIBUTE_MAP[names[i]]
              /\ (calls[1].names.none \/ names = <<>>) => sent = <<>>

\* known names around an unknown one, in another order than the catalog's
C14_Witness ==
    /\ pc = "returned"
    /\ Called("detect_faces_sdk")
    /\ calls[1].names = PyList(<<"gender", "bogus", "age">>)
    /\ ret.request.attrs.items = <<"GENDER", "AGE">>
    /\ ret.exc = NoExc

\* an empty list of names
C14_WitnessEmpty ==
    /\ pc = "returned"
    /\ Called("detect_faces_sdk")
    /\ calls[1].names = PyList(<<>>)
    /\ ret.request.attrs.items = <<>>

----------------------------------------------------------------------------
(* Identification: identify_sdk over the candidate lists a service answers *)

\* longest candidate list the service answers for a face
MaxHeld == 3

\* confidences in tenths: 0.3, 0.6, 0.9
Confidences == {3, 6, 9}
CandidateLists == SeqsUpTo(Confidences, MaxHeld)

\* max_candidates and confidence_threshold (in tenths) a caller passes
MaxCandidatesChoices == {1, 2, DefaultMaxCandidates}
ThresholdChoices == {0, DefaultConfidenceThreshold}

\* the log entry of an identify call: what the caller asked for and the
\* candidate list the service answered for each face
IdentifyCall(max_candidates, confidence_threshold, candidates, o, r) ==
    [op |-> "identify_sdk", img_bytes |-> None, url |-> None,
     names |-> NoneList, exc |-> o.exc, request |-> o.request,
     n |-> IF o.request = NoRequest THEN 0 ELSE r.n,
     answered |-> IF o.request = NoRequest THEN NoExc ELSE r.exc,
     obj |-> [as_dict |-> r.as_dict, str |-> r.str],
     max_candidates |-> max_candidates,
     confidence_threshold |-> confidence_threshold,
     candidates |-> candidates]

IdentifyWith(c) ==
    \E max_candidates \in MaxCandidatesChoices,
       confidence_threshold \in ThresholdChoices,
       candidates \in CandidateLists, r \in ExportedResponses :
        LET o == identify_sdk(c, environ, <<"f1">>, "g1", max_candidates,
                              confidence_threshold, r, candidates)
        IN  Returns(c, IdentifyCall(max_candidates, confidence_threshold,
                                    candidates, o, r), o)

NextIdentify ==
    \/ \E c \in CatalogConfigs : IdentifyWith(c)
    \/ Resume

SpecIdentify == InitCatalog /\ [][NextIdentify]_vars

\* identify returned a list of results, one per face
Identified == /\ pc = "returned"
              /\ Called("identify_sdk")
              /\ ret.exc = NoExc

Min(a, b) == IF a <= b THEN a ELSE b

----------------------------------------------------------------------------
(* Shape of the report's errors *)

Checks == {"detect_basic", "detect_attributes", "largePersonGroup"}

\* C16: a report that probe_endpoint returns has at most two error
\* entries, at most one per check, never one of detect_basic together with
\* one of detect_attributes, and an entry of largePersonGroup, when there
\* is one, is the last.
C16_ErrorsShape ==
    pc = "done" =>
        /\ Len(result.errors) <= 2
        /\ \A i \in 1..Len(result.errors) : result.errors[i].check \in Checks
        /\ \A check \in Checks : Len(EntriesOf(check)) <= 1
        /\ ~ /\ EntriesOf("detect_basic") # <<>>
             /\ EntriesOf("detect_attributes") # <<>>
        /\ \A i \in 1..Len(result.errors) :
              result.errors[i].check = "largePersonGroup"
                  => i = Len(result.errors)

\* the attribute detect and the listing both failed
C16_Witness ==
    /\ pc = "done"
    /\ Len(result.errors) = 2
    /\ result.errors[1].check = "detect_attributes"
    /\ result.errors[2].check = "largePersonGroup"

\* both detects of the basic check failed, and the listing too
C16_WitnessRetry ==
    /\ pc = "done"
    /\ Len(BasicCalls) = 2
    /\ Len(result.errors) = 2
    /\ result.errors[1].check = "detect_basic"
    /\ result.errors[2].check = "largePersonGroup"

\* C17: in a report that probe_endpoint returns, detect_basic is False
\* exactly when errors has a detect_basic entry and largePersonGroup is
\* False exactly when errors has a largePersonGroup entry; an entry of
\* detect_attributes implies detect_attributes is False, not the converse.
C17_FlagsMatchErrors ==
    pc = "done" =>
        /\ ~result.detect_basic <=> EntriesOf("detect_basic") # <<>>
        /\ ~result.largePersonGroup <=> EntriesOf("largePersonGroup") # <<>>
        /\ EntriesOf("detect_attributes") # <<>> => ~result.detect_attributes

\* the attribute check was not run: detect_attributes is False with no
\* entry, next to a failed basic check and a failed listing with entries
C17_Witness ==
    /\ pc = "done"
    /\ ~result.detect_basic
    /\ EntriesOf("detect_basic") # <<>>
    /\ AttributeCalls = <<>>
    /\ ~result.detect_attributes
    /\ EntriesOf("detect_attributes") = <<>>
    /\ ~result.largePersonGroup
    /\ EntriesOf("largePersonGroup") # <<>>

\* both flags True and no entry
C17_WitnessClean ==
    /\ pc = "done"
    /\ result.detect_basic
    /\ result.largePersonGroup
    /\ result.errors = <<>>

====
